---- MODULE Spec2Model ----
(***************************************************************************)
(* Model of package intlist: NewIterator / Iterator.Next / Iterator.Err /  *)
(* Parse.  A specification string is a sequence of one-character strings.  *)
(* The platform int is modelled with IntBits bits: strconv.Atoi reports a  *)
(* range error outside MinInt..MaxInt and `next += step` wraps modulo      *)
(* 2^IntBits.                                                              *)
(***************************************************************************)
EXTENDS Integers, Sequences, FiniteSets, TLC

\* ------------------------------------------------------------------ bounds
\* Width of the modelled int.
IntBits == 8
\* Largest number of comma-separated items in an input specification.
MaxItems == 2

Pow2(n) == 2 ^ n
MaxInt == Pow2(IntBits - 1) - 1
MinInt == -Pow2(IntBits - 1)
\* Largest value of the unsigned accumulator strconv uses while scanning digits.
MaxUint == Pow2(IntBits) - 1

\* ------------------------------------------------------------------ errors
\* An error value: Err is "nil", "ErrDone", "ErrSyntax" or "ErrRange"; the
\* last two are *strconv.NumError values carrying Func and Num.
NilErr == [Err |-> "nil", Func |-> "", Num |-> <<>>]
ErrDone == [Err |-> "ErrDone", Func |-> "", Num |-> <<>>]
NumError(fn, num, e) == [Err |-> e, Func |-> fn, Num |-> num]

PanicErrDone == "Next() called again after returning ErrDone."
PanicInvalid == "Next() called on invalid iterator."
NoPanic == ""

\* ----------------------------------------------------------------- strings
\* The two separators NewIterator splits on.
Ellipsis == <<".", ".", ".">>
Comma == <<",">>

DigitChars == <<"0", "1", "2", "3", "4", "5", "6", "7", "8", "9">>
IsDigit(c) == \E d \in 1..10 : DigitChars[d] = c
DigitVal(c) == (CHOOSE d \in 1..10 : DigitChars[d] = c) - 1

\* strings.Index: position of the first occurrence of sep in s, 0 if none.
Index(s, sep) ==
    LET hits == {i \in 1..(Len(s) - Len(sep) + 1) :
                    SubSeq(s, i, i + Len(sep) - 1) = sep}
    IN IF hits = {} THEN 0 ELSE CHOOSE i \in hits : \A j \in hits : i <= j

\* strings.Split for a non-empty separator: the pieces between the leftmost
\* non-overlapping occurrences of sep (always at least one piece).
RECURSIVE Split(_, _)
Split(s, sep) ==
    LET i == Index(s, sep)
    IN IF i = 0
       THEN <<s>>
       ELSE <<SubSeq(s, 1, i - 1)>> \o Split(SubSeq(s, i + Len(sep), Len(s)), sep)

\* The digit loop of strconv.ParseUint: scans left to right and stops at the
\* first invalid character (syntax) or at the first overflow of the unsigned
\* accumulator (range), whichever comes first.
RECURSIVE ParseUint(_, _, _)
ParseUint(s, i, n) ==
    IF i > Len(s) THEN [val |-> n, err |-> "nil"]
    ELSE IF ~IsDigit(s[i]) THEN [val |-> 0, err |-> "ErrSyntax"]
    ELSE IF n * 10 + DigitVal(s[i]) > MaxUint THEN [val |-> MaxUint, err |-> "ErrRange"]
    ELSE ParseUint(s, i + 1, n * 10 + DigitVal(s[i]))

\* strconv.Atoi: optional sign, at least one digit, base 10, int range.
Atoi(s) ==
    IF Len(s) = 0 THEN [val |-> 0, err |-> NumError("Atoi", s, "ErrSyntax")]
    ELSE
      LET neg == s[1] = "-"
          signed == s[1] = "-" \/ s[1] = "+"
          body == IF signed THEN SubSeq(s, 2, Len(s)) ELSE s
          un == ParseUint(body, 1, 0)
          cutoff == MaxInt + 1
      IN IF Len(body) = 0 THEN [val |-> 0, err |-> NumError("Atoi", s, "ErrSyntax")]
         ELSE IF un.err = "ErrSyntax" THEN [val |-> 0, err |-> NumError("Atoi", s, "ErrSyntax")]
         ELSE IF un.err = "ErrRange" \/ (~neg /\ un.val >= cutoff) \/ (neg /\ un.val > cutoff)
              THEN [val |-> IF neg THEN MinInt ELSE MaxInt,
                    err |-> NumError("Atoi", s, "ErrRange")]
         ELSE [val |-> IF neg THEN -un.val ELSE un.val, err |-> NilErr]

\* int addition of the platform: wraps modulo 2^IntBits.
WrapInt(x) == ((x - MinInt) % Pow2(IntBits)) + MinInt

\* ---------------------------------------------------------------- iterator
\* The zero value of struct seq.
ZeroSeq == [next |-> 0, last |-> 0, step |-> 0]

\* Mutant of ParseItem: `case 2` also takes items with more than one "...",
\* reading their first two parts and ignoring the rest.
ParseItem_IgnoreExtra(item) ==
    LET parts == Split(item, Ellipsis)
    IN CASE Len(parts) = 1 ->
              LET a == Atoi(parts[1])
              IN [itemData |-> [next |-> a.val, last |-> a.val, step |-> 0], err |-> a.err]
         [] OTHER ->
              LET a == Atoi(parts[1])
                  b == Atoi(parts[2])
              IN IF a.err # NilErr
                 THEN [itemData |-> [ZeroSeq EXCEPT !.next = a.val], err |-> a.err]
                 ELSE IF b.err # NilErr
                 THEN [itemData |-> [ZeroSeq EXCEPT !.next = a.val, !.last = b.val],
                       err |-> b.err]
                 ELSE [itemData |-> [next |-> a.val, last |-> b.val,
                                     step |-> IF a.val < b.val THEN 1 ELSE -1],
                       err |-> NilErr]

\* Mutant of ParseItem: the error of the first endpoint's Atoi is not tested, it
\* is overwritten by the second endpoint's.
ParseItem_NoFirstCheck(item) ==
    LET parts == Split(item, Ellipsis)
    IN CASE Len(parts) = 1 ->
              LET a == Atoi(parts[1])
              IN [itemData |-> [next |-> a.val, last |-> a.val, step |-> 0], err |-> a.err]
         [] Len(parts) = 2 ->
              LET a == Atoi(parts[1])
                  b == Atoi(parts[2])
              IN IF b.err # NilErr
                 THEN [itemData |-> [ZeroSeq EXCEPT !.next = a.val, !.last = b.val],
                       err |-> b.err]
                 ELSE [itemData |-> [next |-> a.val, last |-> b.val,
                                     step |-> IF a.val < b.val THEN 1 ELSE -1],
                       err |-> NilErr]
         [] OTHER ->
              [itemData |-> ZeroSeq, err |-> NumError("NewIterator", item, "ErrSyntax")]

\* Mutant of ParseItem: the error of the second endpoint's Atoi is not tested.
ParseItem_NoSecondCheck(item) ==
    LET parts == Split(item, Ellipsis)
    IN CASE Len(parts) = 1 ->
              LET a == Atoi(parts[1])
              IN [itemData |-> [next |-> a.val, last |-> a.val, step |-> 0], err |-> a.err]
         [] Len(parts) = 2 ->
              LET a == Atoi(parts[1])
                  b == Atoi(parts[2])
              IN IF a.err # NilErr
                 THEN [itemData |-> [ZeroSeq EXCEPT !.next = a.val], err |-> a.err]
                 ELSE [itemData |-> [next |-> a.val, last |-> b.val,
                                     step |-> IF a.val < b.val THEN 1 ELSE -1],
                       err |-> NilErr]
         [] OTHER ->
              [itemData |-> ZeroSeq, err |-> NumError("NewIterator", item, "ErrSyntax")]

\* Mutant of ParseItem: the direction test is left out, step is always +1.
ParseItem_StepUp(item) ==
    LET parts == Split(item, Ellipsis)
    IN CASE Len(parts) = 1 ->
              LET a == Atoi(parts[1])
              IN [itemData |-> [next |-> a.val, last |-> a.val, step |-> 0], err |-> a.err]
         [] Len(parts) = 2 ->
              LET a == Atoi(parts[1])
                  b == Atoi(parts[2])
              IN IF a.err # NilErr
                 THEN [itemData |-> [ZeroSeq EXCEPT !.next = a.val], err |-> a.err]
                 ELSE IF b.err # NilErr
                 THEN [itemData |-> [ZeroSeq EXCEPT !.next = a.val, !.last = b.val],
                       err |-> b.err]
                 ELSE [itemData |-> [next |-> a.val, last |-> b.val, step |-> 1],
                       err |-> NilErr]
         [] OTHER ->
              [itemData |-> ZeroSeq, err |-> NumError("NewIterator", item, "ErrSyntax")]

\* The body of NewIterator's loop for one item: the descriptor and the error.
ParseItem(item) ==
    LET parts == Split(item, Ellipsis)
    IN CASE Len(parts) = 1 ->
              LET a == Atoi(parts[1])
              IN [itemData |-> [next |-> a.val, last |-> a.val, step |-> 0], err |-> a.err]
         [] Len(parts) = 2 ->
              LET a == Atoi(parts[1])
                  b == Atoi(parts[2])
              IN IF a.err # NilErr
                 THEN [itemData |-> [ZeroSeq EXCEPT !.next = a.val], err |-> a.err]
                 ELSE IF b.err # NilErr
                 THEN [itemData |-> [ZeroSeq EXCEPT !.next = a.val, !.last = b.val],
                       err |-> b.err]
                 ELSE [itemData |-> [next |-> a.val, last |-> b.val,
                                     step |-> IF a.val < b.val THEN 1 ELSE -1],
                       err |-> NilErr]
         [] OTHER ->
              [itemData |-> ZeroSeq, err |-> NumError("NewIterator", item, "ErrSyntax")]

\* Mutant of NewIterator's loop: the `break` after `seqs = nil` is left out, so
\* the loop goes on and err is overwritten by the next item's Atoi.
RECURSIVE ParseItems_NoBreakFrom(_, _, _, _)
ParseItems_NoBreakFrom(items, i, seqs, err) ==
    IF i > Len(items) THEN [seqs |-> seqs, err |-> err]
    ELSE LET r == ParseItem(items[i])
         IN IF r.err # NilErr
            THEN ParseItems_NoBreakFrom(items, i + 1, <<>>, r.err)
            ELSE ParseItems_NoBreakFrom(items, i + 1, Append(seqs, r.itemData), r.err)
ParseItems_NoBreak(items, i, seqs) == ParseItems_NoBreakFrom(items, i, seqs, NilErr)

\* NewIterator's loop over items[i..]: stops at the first error, dropping seqs.
RECURSIVE ParseItems(_, _, _)
ParseItems(items, i, seqs) ==
    IF i > Len(items) THEN [seqs |-> seqs, err |-> NilErr]
    ELSE LET r == ParseItem(items[i])
         IN IF r.err # NilErr
            THEN [seqs |-> <<>>, err |-> r.err]
            ELSE ParseItems(items, i + 1, Append(seqs, r.itemData))

\* Mutant of NewIterator: the empty-list case is left out.
NewIterator_NoEmptyCase(s) == ParseItems(Split(s, Comma), 1, <<>>)

NewIterator(s) ==
    LET items == Split(s, Comma)
    IN IF Len(items) = 1 /\ items[1] = <<>>
       THEN [seqs |-> <<>>, err |-> NilErr]
       ELSE ParseItems(items, 1, <<>>)

\* Mutant of Iterator.Next: finishing an item drops every pending descriptor
\* (i.seqs = i.seqs[:0]) instead of the first one.
IteratorNext_DropRest(i) ==
    IF i.err # NilErr
    THEN [it |-> i, val |-> 0, err |-> NilErr,
          panic |-> IF i.err = ErrDone THEN PanicErrDone ELSE PanicInvalid]
    ELSE IF Len(i.seqs) = 0
    THEN [it |-> [i EXCEPT !.err = ErrDone], val |-> 0, err |-> ErrDone, panic |-> NoPanic]
    ELSE LET item == i.seqs[1]
             val == item.next
         IN IF val = item.last
            THEN [it |-> [i EXCEPT !.seqs = <<>>],
                  val |-> val, err |-> NilErr, panic |-> NoPanic]
            ELSE [it |-> [i EXCEPT !.seqs[1].next = WrapInt(item.next + item.step)],
                  val |-> val, err |-> NilErr, panic |-> NoPanic]

\* Mutant of Iterator.Next: the call that removes the last descriptor already
\* sets i.err = ErrDone.
IteratorNext_EagerDone(i) ==
    IF i.err # NilErr
    THEN [it |-> i, val |-> 0, err |-> NilErr,
          panic |-> IF i.err = ErrDone THEN PanicErrDone ELSE PanicInvalid]
    ELSE IF Len(i.seqs) = 0
    THEN [it |-> [i EXCEPT !.err = ErrDone], val |-> 0, err |-> ErrDone, panic |-> NoPanic]
    ELSE LET item == i.seqs[1]
             val == item.next
         IN IF val = item.last
            THEN [it |-> [seqs |-> Tail(i.seqs),
                          err |-> IF Len(i.seqs) = 1 THEN ErrDone ELSE i.err],
                  val |-> val, err |-> NilErr, panic |-> NoPanic]
            ELSE [it |-> [i EXCEPT !.seqs[1].next = WrapInt(item.next + item.step)],
                  val |-> val, err |-> NilErr, panic |-> NoPanic]

\* Mutant of Iterator.Next: the descriptor is dropped one step late, when
\* next has passed last, so every call steps.
IteratorNext_PastLast(i) ==
    IF i.err # NilErr
    THEN [it |-> i, val |-> 0, err |-> NilErr,
          panic |-> IF i.err = ErrDone THEN PanicErrDone ELSE PanicInvalid]
    ELSE IF Len(i.seqs) = 0
    THEN [it |-> [i EXCEPT !.err = ErrDone], val |-> 0, err |-> ErrDone, panic |-> NoPanic]
    ELSE LET item == i.seqs[1]
             val == item.next
         IN IF val = WrapInt(item.last + item.step)
            THEN [it |-> [i EXCEPT !.seqs = Tail(i.seqs)],
                  val |-> val, err |-> NilErr, panic |-> NoPanic]
            ELSE [it |-> [i EXCEPT !.seqs[1].next = WrapInt(item.next + item.step)],
                  val |-> val, err |-> NilErr, panic |-> NoPanic]

\* Mutant of Iterator.Next: `item := i.seqs[0]` copies the descriptor, so
\* `item.next += item.step` changes the copy and not the pending sequence.
IteratorNext_CopyItem(i) ==
    IF i.err # NilErr
    THEN [it |-> i, val |-> 0, err |-> NilErr,
          panic |-> IF i.err = ErrDone THEN PanicErrDone ELSE PanicInvalid]
    ELSE IF Len(i.seqs) = 0
    THEN [it |-> [i EXCEPT !.err = ErrDone], val |-> 0, err |-> ErrDone, panic |-> NoPanic]
    ELSE LET item == i.seqs[1]
             val == item.next
         IN IF val = item.last
            THEN [it |-> [i EXCEPT !.seqs = Tail(i.seqs)],
                  val |-> val, err |-> NilErr, panic |-> NoPanic]
            ELSE [it |-> i, val |-> val, err |-> NilErr, panic |-> NoPanic]

\* Mutant of Iterator.Next: the emptiness test comes before the error test, so
\* an invalid Iterator (no descriptors) reports ErrDone instead of panicking.
IteratorNext_EmptyFirst(i) ==
    IF Len(i.seqs) = 0 /\ i.err # ErrDone
    THEN [it |-> [i EXCEPT !.err = ErrDone], val |-> 0, err |-> ErrDone, panic |-> NoPanic]
    ELSE IF i.err # NilErr
    THEN [it |-> i, val |-> 0, err |-> NilErr,
          panic |-> IF i.err = ErrDone THEN PanicErrDone ELSE PanicInvalid]
    ELSE LET item == i.seqs[1]
             val == item.next
         IN IF val = item.last
            THEN [it |-> [i EXCEPT !.seqs = Tail(i.seqs)],
                  val |-> val, err |-> NilErr, panic |-> NoPanic]
            ELSE [it |-> [i EXCEPT !.seqs[1].next = WrapInt(item.next + item.step)],
                  val |-> val, err |-> NilErr, panic |-> NoPanic]

\* Mutant of Iterator.Next: i.err = ErrDone is left out, ErrDone is returned
\* without being recorded.
IteratorNext_NoDoneMark(i) ==
    IF i.err # NilErr
    THEN [it |-> i, val |-> 0, err |-> NilErr,
          panic |-> IF i.err = ErrDone THEN PanicErrDone ELSE PanicInvalid]
    ELSE IF Len(i.seqs) = 0
    THEN [it |-> i, val |-> 0, err |-> ErrDone, panic |-> NoPanic]
    ELSE LET item == i.seqs[1]
             val == item.next
         IN IF val = item.last
            THEN [it |-> [i EXCEPT !.seqs = Tail(i.seqs)],
                  val |-> val, err |-> NilErr, panic |-> NoPanic]
            ELSE [it |-> [i EXCEPT !.seqs[1].next = WrapInt(item.next + item.step)],
                  val |-> val, err |-> NilErr, panic |-> NoPanic]

\* Iterator.Next: the iterator after the call, the returned pair and the
\* panic message (NoPanic when the call returns).
IteratorNext(i) ==
    IF i.err # NilErr
    THEN [it |-> i, val |-> 0, err |-> NilErr,
          panic |-> IF i.err = ErrDone THEN PanicErrDone ELSE PanicInvalid]
    ELSE IF Len(i.seqs) = 0
    THEN [it |-> [i EXCEPT !.err = ErrDone], val |-> 0, err |-> ErrDone, panic |-> NoPanic]
    ELSE LET item == i.seqs[1]
             val == item.next
         IN IF val = item.last
            THEN [it |-> [i EXCEPT !.seqs = Tail(i.seqs)],
                  val |-> val, err |-> NilErr, panic |-> NoPanic]
            ELSE [it |-> [i EXCEPT !.seqs[1].next = WrapInt(item.next + item.step)],
                  val |-> val, err |-> NilErr, panic |-> NoPanic]

\* Mutant of Iterator.Err: reading the error clears the slot.
IteratorErr_Clears(i) == [it |-> [i EXCEPT !.err = NilErr], err |-> i.err]

\* Iterator.Err: the iterator after the call and the returned error.
IteratorErr(i) == [it |-> i, err |-> i.err]

\* ------------------------------------------------------------------ inputs
\* Decimal text of an integer, as a caller would write it.
RECURSIVE Digits(_)
Digits(n) == IF n < 10 THEN <<DigitChars[n + 1]>>
             ELSE Digits(n \div 10) \o <<DigitChars[(n % 10) + 1]>>
Itoa(n) == IF n < 0 THEN <<"-">> \o Digits(-n) ELSE Digits(n)

\* Integer pieces that parse: small ones and the two ends of the int range.
SmallEnds == {Itoa(-1), Itoa(2)}
ValidPieces == SmallEnds \cup {Itoa(0), <<"+", "1">>, Itoa(MaxInt), Itoa(MinInt)}
\* Pieces out of the int range.
RangePieces == {Itoa(MaxInt + 1), Itoa(MinInt - 1), Itoa(MaxUint + 1)}
\* Pieces that are no integer: empty, whitespace, decimal point, bare sign,
\* and a decimal whose integer part already overflows.
SyntaxPieces == {<<>>, <<" ", "1">>, <<"2", ".", "3">>, <<"-">>,
                 Itoa(MaxUint + 1) \o <<".", "5">>}
LiteralItems == ValidPieces \cup RangePieces \cup SyntaxPieces
\* Ranges between small integers (both directions, equal ends), ranges that
\* start or end at an end of the int range, and ranges with a bad endpoint.
RangeItems ==
    {a \o Ellipsis \o b : a \in SmallEnds, b \in SmallEnds}
    \cup {Itoa(MaxInt - 1) \o Ellipsis \o Itoa(MaxInt), Itoa(MaxInt) \o Ellipsis \o Itoa(MaxInt - 1),
          Itoa(MinInt + 1) \o Ellipsis \o Itoa(MinInt), Itoa(MinInt) \o Ellipsis \o Itoa(MinInt + 1)}
    \cup {a \o Ellipsis \o Itoa(2) : a \in {<<"2", ".", "3">>, Itoa(MaxInt + 1)}}
    \cup {Itoa(2) \o Ellipsis \o b : b \in {<<"2", ".", "3">>, Itoa(MaxInt + 1)}}
    \cup {Itoa(MaxInt + 1) \o Ellipsis \o <<"2", ".", "3">>,
          <<"2", ".", "3">> \o Ellipsis \o Itoa(MaxInt + 1)}
OtherItems == {Itoa(-1) \o Ellipsis \o Itoa(0) \o Ellipsis \o Itoa(2),
               Itoa(2) \o <<".", ".">> \o Itoa(0)}
Items == LiteralItems \cup RangeItems \cup OtherItems

RECURSIVE Join(_, _)
Join(t, sep) == IF Len(t) = 0 THEN <<>>
                ELSE IF Len(t) = 1 THEN t[1]
                ELSE t[1] \o sep \o Join(Tail(t), sep)

\* The examples of the package's documentation and tests.
\* Parse("1,2,21,50...54,61..57"), in the comment of Parse.
ParseDocSpec ==
    <<"1", ",", "2", ",", "2", "1", ",",
      "5", "0", ".", ".", ".", "5", "4", ",", "6", "1", ".", ".", "5", "7">>
\* NewIterator("1,2,21,50...54,57...61"), in the comment of NewIterator.
NewIteratorDocSpec ==
    <<"1", ",", "2", ",", "2", "1", ",",
      "5", "0", ".", ".", ".", "5", "4", ",", "5", "7", ".", ".", ".", "6", "1">>
\* "4,12...8,-3", in the package comment.
PackageDocSpec == <<"4", ",", "1", "2", ".", ".", ".", "8", ",", "-", "3">>
\* "1...3,7,5...3,9", in parseTests.
ParseTestSpec == <<"1", ".", ".", ".", "3", ",", "7", ",", "5", ".", ".", ".", "3", ",", "9">>
DocSpecs == {ParseDocSpec, NewIteratorDocSpec, PackageDocSpec, ParseTestSpec}

\* The input specifications: the empty string, every comma-joined list of
\* 1..MaxItems items, and the documented examples.
Specs == {<<>>} \cup {Join(t, Comma) : t \in UNION {[1..n -> Items] : n \in 1..MaxItems}}
         \cup DocSpecs

\* ------------------------------------------------------------ state machine
VARIABLES
    spec,      \* the specification string handed to NewIterator or Parse
    pc,        \* "start", "iter" (caller drives it), "parse" (inside Parse's
               \* loop), "returned" (Parse returned), "panicked" (Parse aborted)
    it,        \* the Iterator: [seqs, err]
    ret,       \* outcome of the latest call on the Iterator
    out,       \* values returned so far by Next with a nil error
    dones,     \* number of Next calls that returned ErrDone
    result,    \* Parse's local slice
    parseRet,  \* what Parse returned: [isNil, vals, err]
    conc       \* two callers inside Next at once: the memory they share and
               \* their local variables (NoConc when there is one caller)

vars == <<spec, pc, it, ret, out, dones, result, parseRet, conc>>

NoIterator == [seqs |-> <<>>, err |-> NilErr]
Ret(op, val, err, panic) == [op |-> op, val |-> val, err |-> err, panic |-> panic]
NoRet == Ret("none", 0, NilErr, NoPanic)
NoParseRet == [isNil |-> TRUE, vals |-> <<>>, err |-> NilErr]
\* A caller's local variables in Next: where it is, its item pointer (an index
\* of the backing array), val, and the values it has read but not yet written.
IdleCaller == [pc |-> "idle", item |-> 0, val |-> 0, hdr |-> 0, tmp |-> 0, calls |-> 0]
NoConc == [arr |-> <<>>, off |-> 0, th |-> <<>>, overlapped |-> FALSE, fault |-> ""]

Init ==
    /\ spec \in Specs
    /\ pc = "start"
    /\ it = NoIterator
    /\ ret = NoRet
    /\ out = <<>>
    /\ dones = 0
    /\ result = <<>>
    /\ parseRet = NoParseRet
    /\ conc = NoConc

\* it := NewIterator(spec)
CallNewIterator ==
    /\ pc = "start"
    /\ it' = NewIterator(spec)
    /\ pc' = "iter"
    /\ ret' = Ret("NewIterator", 0, NilErr, NoPanic)
    /\ UNCHANGED <<spec, out, dones, result, parseRet, conc>>

\* val, err := it.Next(), a panic being recovered by the caller (as the
\* tests do), so that further calls can follow it.
CallNext ==
    /\ pc = "iter"
    /\ LET r == IteratorNext(it)
       IN /\ it' = r.it
          /\ ret' = Ret("Next", r.val, r.err, r.panic)
          /\ out' = IF r.panic = NoPanic /\ r.err = NilErr THEN Append(out, r.val) ELSE out
          /\ dones' = IF r.panic = NoPanic /\ r.err = ErrDone THEN dones + 1 ELSE dones
    /\ UNCHANGED <<spec, pc, result, parseRet, conc>>

\* err := it.Err()
CallErr ==
    /\ pc = "iter"
    /\ LET r == IteratorErr(it)
       IN /\ it' = r.it
          /\ ret' = Ret("Err", 0, r.err, NoPanic)
    /\ UNCHANGED <<spec, pc, out, dones, result, parseRet, conc>>

\* Mutant of Parse: on a construction error it returns result, the empty
\* non-nil slice, instead of nil.
ParseBegin_ReturnsResult ==
    /\ pc = "start"
    /\ LET i == NewIterator(spec)
           e == IteratorErr(i).err
       IN /\ it' = i
          /\ result' = <<>>
          /\ IF e # NilErr
             THEN /\ pc' = "returned"
                  /\ parseRet' = [isNil |-> FALSE, vals |-> <<>>, err |-> e]
             ELSE /\ pc' = "parse"
                  /\ parseRet' = parseRet
    /\ ret' = Ret("NewIterator", 0, NilErr, NoPanic)
    /\ UNCHANGED <<spec, out, dones, conc>>

\* Mutant of Parse: the check of it.Err() is left out, the loop is entered
\* whatever NewIterator recorded.
ParseBegin_NoErrCheck ==
    /\ pc = "start"
    /\ it' = NewIterator(spec)
    /\ result' = <<>>
    /\ pc' = "parse"
    /\ parseRet' = parseRet
    /\ ret' = Ret("NewIterator", 0, NilErr, NoPanic)
    /\ UNCHANGED <<spec, out, dones, conc>>

\* Parse, up to its loop: result := []int{}; it := NewIterator(spec);
\* if it.Err() != nil { return nil, it.Err() }
ParseBegin ==
    /\ pc = "start"
    /\ LET i == NewIterator(spec)
           e == IteratorErr(i).err
       IN /\ it' = i
          /\ result' = <<>>
          /\ IF e # NilErr
             THEN /\ pc' = "returned"
                  /\ parseRet' = [isNil |-> TRUE, vals |-> <<>>, err |-> e]
             ELSE /\ pc' = "parse"
                  /\ parseRet' = parseRet
    /\ ret' = Ret("NewIterator", 0, NilErr, NoPanic)
    /\ UNCHANGED <<spec, out, dones, conc>>

\* One iteration of Parse's loop: val, err := it.Next(); break on ErrDone,
\* else append.  A panic of Next aborts Parse.
ParseLoop ==
    /\ pc = "parse"
    /\ LET r == IteratorNext(it)
       IN /\ it' = r.it
          /\ ret' = Ret("Next", r.val, r.err, r.panic)
          /\ IF r.panic # NoPanic
             THEN /\ pc' = "panicked"
                  /\ UNCHANGED <<result, parseRet>>
             ELSE IF r.err = ErrDone
             THEN /\ pc' = "returned"
                  /\ parseRet' = [isNil |-> FALSE, vals |-> result, err |-> NilErr]
                  /\ result' = result
             ELSE /\ pc' = "parse"
                  /\ result' = Append(result, r.val)
                  /\ parseRet' = parseRet
    /\ UNCHANGED <<spec, out, dones, conc>>

Next == CallNewIterator \/ CallNext \/ CallErr \/ ParseBegin \/ ParseLoop

Spec == Init /\ [][Next]_vars

\* --------------------------------------------- two callers, no locking
\* Two goroutines call Next on one Iterator with no synchronization.  Next
\* takes no lock, so its reads and writes of i.err, of the slice header
\* i.seqs and of the descriptors interleave freely; each step below is one
\* read or write of shared memory at the line of Next named in its pc.  The
\* slice i.seqs is the backing array conc.arr from index conc.off + 1 on;
\* it.seqs is kept equal to that view.  A run-time panic stops the program.
Threads == {1, 2}
\* Largest number of Next calls one caller makes.
MaxCalls == 2
ConcItems == {Itoa(2), Itoa(-1) \o Ellipsis \o Itoa(2), Itoa(2) \o Ellipsis \o Itoa(-1)}
ConcSpecs == {<<>>, <<"2", ".", "3">>}
             \cup {Join(t, Comma) : t \in UNION {[1..n -> ConcItems] : n \in 1..MaxItems}}

PanicIndex == "runtime error: index out of range [0] with length 0"
PanicSlice == "runtime error: slice bounds out of range [1:0]"

SeqsLen == Len(conc.arr) - conc.off
SeqsView(arr, off) == SubSeq(arr, off + 1, Len(arr))
At(t, l) == conc.fault = "" /\ pc = "conc" /\ conc.th[t].pc = l
Goto(t, l) == [conc EXCEPT !.th[t].pc = l]
\* The caller's Next call ends (it returns or panics).
Leave(c, t) == [c EXCEPT !.th[t].pc = "idle"]

ConcInit ==
    /\ spec \in ConcSpecs
    /\ pc = "conc"
    /\ it = NewIterator(spec)
    /\ ret = NoRet
    /\ out = <<>>
    /\ dones = 0
    /\ result = <<>>
    /\ parseRet = NoParseRet
    /\ conc = [arr |-> NewIterator(spec).seqs, off |-> 0,
               th |-> [t \in Threads |-> IdleCaller],
               overlapped |-> FALSE, fault |-> ""]

\* A caller calls Next.
ConcCall(t) ==
    /\ At(t, "idle")
    /\ conc.th[t].calls < MaxCalls
    /\ conc' = [conc EXCEPT !.th[t].pc = "l104",
                            !.th[t].calls = @ + 1,
                            !.overlapped = @ \/ \E u \in Threads \ {t} : conc.th[u].pc # "idle"]
    /\ UNCHANGED <<spec, pc, it, ret, out, dones, result, parseRet>>

\* if i.err != nil { panic(...) }
ConcCheckErr(t) ==
    /\ At(t, "l104")
    /\ IF it.err # NilErr
       THEN /\ conc' = [Leave(conc, t) EXCEPT
                           !.fault = IF it.err = ErrDone THEN PanicErrDone ELSE PanicInvalid]
            /\ ret' = Ret("Next", 0, NilErr,
                          IF it.err = ErrDone THEN PanicErrDone ELSE PanicInvalid)
       ELSE /\ conc' = Goto(t, "l111")
            /\ ret' = ret
    /\ UNCHANGED <<spec, pc, it, out, dones, result, parseRet>>

\* if len(i.seqs) == 0
ConcCheckLen(t) ==
    /\ At(t, "l111")
    /\ conc' = Goto(t, IF SeqsLen = 0 THEN "l112" ELSE "l115")
    /\ UNCHANGED <<spec, pc, it, ret, out, dones, result, parseRet>>

\* i.err = ErrDone; return 0, ErrDone
ConcSetDone(t) ==
    /\ At(t, "l112")
    /\ it' = [it EXCEPT !.err = ErrDone]
    /\ ret' = Ret("Next", 0, ErrDone, NoPanic)
    /\ dones' = dones + 1
    /\ conc' = Leave(conc, t)
    /\ UNCHANGED <<spec, pc, out, result, parseRet>>

\* item := &i.seqs[0], with its bounds check
ConcTakeItem(t) ==
    /\ At(t, "l115")
    /\ IF SeqsLen = 0
       THEN /\ conc' = [Leave(conc, t) EXCEPT !.fault = PanicIndex]
            /\ ret' = Ret("Next", 0, NilErr, PanicIndex)
       ELSE /\ conc' = [Goto(t, "l116") EXCEPT !.th[t].item = conc.off + 1]
            /\ ret' = ret
    /\ UNCHANGED <<spec, pc, it, out, dones, result, parseRet>>

\* val := item.next
ConcReadVal(t) ==
    /\ At(t, "l116")
    /\ conc' = [Goto(t, "l117") EXCEPT !.th[t].val = conc.arr[conc.th[t].item].next]
    /\ UNCHANGED <<spec, pc, it, ret, out, dones, result, parseRet>>

\* if val == item.last
ConcCompare(t) ==
    /\ At(t, "l117")
    /\ conc' = Goto(t, IF conc.th[t].val = conc.arr[conc.th[t].item].last
                       THEN "l119" ELSE "l121")
    /\ UNCHANGED <<spec, pc, it, ret, out, dones, result, parseRet>>

\* i.seqs = i.seqs[1:], the read of the slice header with its bounds check
ConcResliceRead(t) ==
    /\ At(t, "l119")
    /\ IF SeqsLen = 0
       THEN /\ conc' = [Leave(conc, t) EXCEPT !.fault = PanicSlice]
            /\ ret' = Ret("Next", 0, NilErr, PanicSlice)
       ELSE /\ conc' = [Goto(t, "l119w") EXCEPT !.th[t].hdr = conc.off]
            /\ ret' = ret
    /\ UNCHANGED <<spec, pc, it, out, dones, result, parseRet>>

\* Mutant of the slice update: the new slice starts two descriptors on.
ConcResliceWrite_Two(t) ==
    /\ At(t, "l119w")
    /\ LET off == IF conc.th[t].hdr + 2 <= Len(conc.arr) THEN conc.th[t].hdr + 2
                  ELSE Len(conc.arr)
       IN /\ conc' = [Goto(t, "l123") EXCEPT !.off = off]
          /\ it' = [it EXCEPT !.seqs = SeqsView(conc.arr, off)]
    /\ UNCHANGED <<spec, pc, ret, out, dones, result, parseRet>>

\* i.seqs = i.seqs[1:], the write of the new slice header
ConcResliceWrite(t) ==
    /\ At(t, "l119w")
    /\ conc' = [Goto(t, "l123") EXCEPT !.off = conc.th[t].hdr + 1]
    /\ it' = [it EXCEPT !.seqs = SeqsView(conc.arr, conc.th[t].hdr + 1)]
    /\ UNCHANGED <<spec, pc, ret, out, dones, result, parseRet>>

\* item.next += item.step, the reads
ConcAdvanceRead(t) ==
    /\ At(t, "l121")
    /\ conc' = [Goto(t, "l121w") EXCEPT
                   !.th[t].tmp = WrapInt(conc.arr[conc.th[t].item].next
                                         + conc.arr[conc.th[t].item].step)]
    /\ UNCHANGED <<spec, pc, it, ret, out, dones, result, parseRet>>

\* item.next += item.step, the write
ConcAdvanceWrite(t) ==
    /\ At(t, "l121w")
    /\ LET arr == [conc.arr EXCEPT ![conc.th[t].item].next = conc.th[t].tmp]
       IN /\ conc' = [Goto(t, "l123") EXCEPT !.arr = arr]
          /\ it' = [it EXCEPT !.seqs = SeqsView(arr, conc.off)]
    /\ UNCHANGED <<spec, pc, ret, out, dones, result, parseRet>>

\* return val, nil
ConcReturn(t) ==
    /\ At(t, "l123")
    /\ out' = Append(out, conc.th[t].val)
    /\ ret' = Ret("Next", conc.th[t].val, NilErr, NoPanic)
    /\ conc' = Leave(conc, t)
    /\ UNCHANGED <<spec, pc, it, dones, result, parseRet>>

ConcNext ==
    \E t \in Threads :
        \/ ConcCall(t)
        \/ ConcCheckErr(t)
        \/ ConcCheckLen(t)
        \/ ConcSetDone(t)
        \/ ConcTakeItem(t)
        \/ ConcReadVal(t)
        \/ ConcCompare(t)
        \/ ConcResliceRead(t)
        \/ ConcResliceWrite(t)
        \/ ConcAdvanceRead(t)
        \/ ConcAdvanceWrite(t)
        \/ ConcReturn(t)

ConcSpec == ConcInit /\ [][ConcNext]_vars

\* ------------------------------------------------- what the text denotes
\* The reading of a specification that the claims are stated against: it is
\* defined on the text alone, without NewIterator, Atoi or Next.
SignedBody(p) == IF Len(p) > 0 /\ (p[1] = "-" \/ p[1] = "+") THEN Tail(p) ELSE p
AllDigits(b) == \A k \in 1..Len(b) : IsDigit(b[k])
\* An integer literal in strconv's convention: optional sign, one digit or more.
IsIntegerLiteral(p) == Len(SignedBody(p)) > 0 /\ AllDigits(SignedBody(p))
\* The longest prefix of b made of digits.
DigitPrefix(b) ==
    LET n == CHOOSE m \in 0..Len(b) :
                 /\ AllDigits(SubSeq(b, 1, m))
                 /\ (m < Len(b) => ~IsDigit(b[m + 1]))
    IN SubSeq(b, 1, n)
RECURSIVE DigitsValue(_)
DigitsValue(b) == IF Len(b) = 0 THEN 0
                  ELSE 10 * DigitsValue(SubSeq(b, 1, Len(b) - 1)) + DigitVal(b[Len(b)])
TextValue(p) == IF Len(p) > 0 /\ p[1] = "-" THEN -DigitsValue(SignedBody(p))
                ELSE DigitsValue(SignedBody(p))

\* "ok": an integer of the int range; "range": an integer literal outside it,
\* or text whose leading digits overflow before its first non-digit;
\* "syntax": any other text.
PieceClass(p) ==
    IF IsIntegerLiteral(p)
    THEN IF TextValue(p) \in MinInt..MaxInt THEN "ok" ELSE "range"
    ELSE IF DigitsValue(DigitPrefix(SignedBody(p))) > MaxUint THEN "range" ELSE "syntax"

PartsOf(item) == Split(item, Ellipsis)
ItemsOf(s) == IF s = <<>> THEN <<>> ELSE Split(s, Comma)

\* The pieces of a specification in the order they are read; an item with
\* more than one "..." counts as one piece that is a syntax error.
RECURSIVE Flatten(_)
Flatten(items) ==
    IF Len(items) = 0 THEN <<>>
    ELSE (IF Len(PartsOf(items[1])) > 2 THEN <<items[1]>> ELSE PartsOf(items[1]))
         \o Flatten(Tail(items))
PiecesOf(s) == Flatten(ItemsOf(s))
RECURSIVE FlattenClass(_)
FlattenClass(items) ==
    IF Len(items) = 0 THEN <<>>
    ELSE (IF Len(PartsOf(items[1])) > 2 THEN <<"syntax">>
          ELSE [k \in 1..Len(PartsOf(items[1])) |-> PieceClass(PartsOf(items[1])[k])])
         \o FlattenClass(Tail(items))
ClassesOf(s) == FlattenClass(ItemsOf(s))
\* Index of the leftmost piece that is not "ok", 0 if every piece is.
FirstBad(s) ==
    LET c == ClassesOf(s)
        bad == {k \in 1..Len(c) : c[k] # "ok"}
    IN IF bad = {} THEN 0 ELSE CHOOSE k \in bad : \A j \in bad : k <= j
ValidSpec(s) == FirstBad(s) = 0

\* The inclusive run from a to b.
Run(a, b) == [k \in 1..((IF a <= b THEN b - a ELSE a - b) + 1) |->
                 IF a <= b THEN a + (k - 1) ELSE a - (k - 1)]
Expansion(item) ==
    LET parts == PartsOf(item)
    IN IF Len(parts) = 1 THEN <<TextValue(parts[1])>>
       ELSE Run(TextValue(parts[1]), TextValue(parts[2]))
RECURSIVE ExpandAll(_)
ExpandAll(items) == IF Len(items) = 0 THEN <<>>
                    ELSE Expansion(items[1]) \o ExpandAll(Tail(items))
Expected(s) == ExpandAll(ItemsOf(s))
ExpansionLen(item) ==
    LET parts == PartsOf(item)
        d == TextValue(parts[1]) - TextValue(parts[Len(parts)])
    IN IF Len(parts) = 1 THEN 1 ELSE (IF d < 0 THEN -d ELSE d) + 1
RECURSIVE SumLen(_)
SumLen(items) == IF Len(items) = 0 THEN 0 ELSE ExpansionLen(items[1]) + SumLen(Tail(items))
IsPrefix(a, b) == Len(a) <= Len(b) /\ SubSeq(b, 1, Len(a)) = a

\* ------------------------------------------------------------------ claims
\* C1: for a valid specification the values returned by successive Next calls,
\* and the slice Parse returns, are the concatenation in item order of each
\* item's expansion ([v] for a literal, the inclusive run for a range), and
\* the number of values is the sum of the items' expansion lengths.
C1_Expansion ==
    ValidSpec(spec) =>
        /\ pc = "iter" =>
              /\ IsPrefix(out, Expected(spec))
              /\ it.err = ErrDone => (out = Expected(spec) /\ Len(out) = SumLen(ItemsOf(spec)))
        /\ pc = "parse" => IsPrefix(result, Expected(spec))
        /\ pc = "returned" =>
              /\ parseRet.vals = Expected(spec)
              /\ Len(parseRet.vals) = SumLen(ItemsOf(spec))
C1_Witness ==
    /\ spec = Join(<<Itoa(2) \o Ellipsis \o Itoa(-1), Itoa(MaxInt)>>, Comma)
    /\ pc = "iter"
    /\ it.err = ErrDone
    /\ out = <<2, 1, 0, -1, MaxInt>>

\* C2: a specification that is the single range a...b emits a, a+1, ..., b
\* when a <= b and a, a-1, ..., b when a > b; a...a gets step -1, emits the
\* one value a and then completes.
IsSingleRange(s) ==
    /\ ValidSpec(s)
    /\ Len(ItemsOf(s)) = 1
    /\ Len(PartsOf(ItemsOf(s)[1])) = 2
RangeFirst(s) == TextValue(PartsOf(ItemsOf(s)[1])[1])
RangeLast(s) == TextValue(PartsOf(ItemsOf(s)[1])[2])
C2_SingleRange ==
    (IsSingleRange(spec) /\ pc = "iter") =>
        LET a == RangeFirst(spec)
            b == RangeLast(spec)
        IN /\ \A k \in 1..Len(out) : out[k] = IF a <= b THEN a + (k - 1) ELSE a - (k - 1)
           /\ Len(out) <= (IF a <= b THEN b - a ELSE a - b) + 1
           /\ it.err = ErrDone => (Len(out) = (IF a <= b THEN b - a ELSE a - b) + 1
                                   /\ out[Len(out)] = b)
           /\ (a = b /\ ret.op = "NewIterator") =>
                  it.seqs = <<[next |-> a, last |-> a, step |-> -1]>>
           /\ (a = b /\ it.err = ErrDone) => out = <<a>>
C2_Witness ==
    /\ spec = Itoa(2) \o Ellipsis \o Itoa(2)
    /\ pc = "iter"
    /\ it.err = ErrDone
    /\ out = <<2>>
    /\ ret = Ret("Next", 0, ErrDone, NoPanic)

\* C3: Next on an Iterator whose error slot holds a validation failure
\* returns nothing: it panics with "Next() called on invalid iterator.", a
\* message other than the already-done one, and changes no Iterator state.
IsInvalid(i) == i.err.Err \in {"ErrSyntax", "ErrRange"}
C3_InvalidPanics ==
    [][(CallNext /\ IsInvalid(it)) =>
          /\ ret'.panic = PanicInvalid
          /\ ret'.panic # PanicErrDone
          /\ it' = it
          /\ out' = out
          /\ dones' = dones]_vars
C3_Witness ==
    /\ spec = <<"2", ".", "3">>
    /\ pc = "iter"
    /\ IsInvalid(it)
    /\ ret.op = "Next"
    /\ ret.panic = PanicInvalid

\* C4: every Next call made after a Next call returned ErrDone panics with
\* "Next() called again after returning ErrDone."; ErrDone is returned at
\* most once per Iterator and no value is returned after it.
C4_DoneOnce ==
    [][/\ dones' <= 1
       /\ (CallNext /\ dones >= 1) =>
             /\ ret'.panic = PanicErrDone
             /\ out' = out
             /\ dones' = dones]_vars
C4_Witness ==
    /\ pc = "iter"
    /\ dones = 1
    /\ Len(out) = 2
    /\ ret.op = "Next"
    /\ ret.panic = PanicErrDone

\* C5: the error slot is nil, a validation failure or ErrDone; once the
\* Iterator exists the only change any call makes to it is nil -> ErrDone, so
\* a validation failure or ErrDone stays for good.
C5_OneWay ==
    [][/\ it'.err.Err \in {"nil", "ErrSyntax", "ErrRange", "ErrDone"}
       /\ pc # "start" => (it'.err = it.err \/ (it.err = NilErr /\ it'.err = ErrDone))]_vars
C5_Witness ==
    /\ pc = "iter"
    /\ it.err = ErrDone
    /\ ret.op = "Err"
    /\ ret.err = ErrDone
    /\ Len(out) = 1

\* The error NewIterator records for a specification that is not valid: the
\* error of the leftmost piece that fails.
ExpectedErr(s) ==
    LET k == FirstBad(s)
        p == PiecesOf(s)[k]
    IN NumError(IF Len(PartsOf(p)) > 2 THEN "NewIterator" ELSE "Atoi", p,
                IF ClassesOf(s)[k] = "range" THEN "ErrRange" ELSE "ErrSyntax")

\* C6: NewIterator is all-or-nothing.  If every item parses the error slot is
\* nil and there is one descriptor per item, in order, holding the item's
\* endpoints; otherwise the error slot holds the error of the leftmost failing
\* item and there is no descriptor.
C6_AllOrNothing ==
    (ret.op = "NewIterator" /\ spec # <<>>) =>
        IF ValidSpec(spec)
        THEN /\ it.err = NilErr
             /\ Len(it.seqs) = Len(ItemsOf(spec))
             /\ \A k \in 1..Len(it.seqs) :
                   LET parts == PartsOf(ItemsOf(spec)[k])
                   IN /\ it.seqs[k].next = TextValue(parts[1])
                      /\ it.seqs[k].last = TextValue(parts[Len(parts)])
        ELSE /\ it.err = ExpectedErr(spec)
             /\ Len(it.seqs) = 0
C6_Witness ==
    /\ spec = Join(<<<<"2", ".", "3">>, Itoa(MaxInt + 1)>>, Comma)
    /\ pc = "iter"
    /\ ret.op = "NewIterator"
    /\ it = [seqs |-> <<>>, err |-> NumError("Atoi", <<"2", ".", "3">>, "ErrSyntax")]

\* C7: Parse returns (sequence, nil) for a valid specification and
\* (nil, construction error) for any other, also when earlier items are
\* valid; it never returns both, never a partial sequence, and never aborts.
C7_ParseResult ==
    /\ pc # "panicked"
    /\ pc = "parse" => ValidSpec(spec)
    /\ pc = "returned" =>
          IF ValidSpec(spec)
          THEN parseRet.err = NilErr /\ ~parseRet.isNil
          ELSE parseRet.isNil /\ parseRet.vals = <<>> /\ parseRet.err = ExpectedErr(spec)
C7_Witness ==
    /\ spec = Join(<<Itoa(-1) \o Ellipsis \o Itoa(2), <<"2", ".", "3">>>>, Comma)
    /\ pc = "returned"
    /\ parseRet = [isNil |-> TRUE, vals |-> <<>>,
                   err |-> NumError("Atoi", <<"2", ".", "3">>, "ErrSyntax")]

\* C8: the empty specification is valid: NewIterator("") has no descriptor and
\* a nil error, its first Next returns ErrDone, Parse("") returns an empty
\* non-nil slice and a nil error; no other specification with an empty item
\* is accepted.
HasEmptyItem(s) == \E k \in 1..Len(Split(s, Comma)) : Split(s, Comma)[k] = <<>>
C8_Empty ==
    /\ spec = <<>> =>
          /\ ret.op = "NewIterator" => it = [seqs |-> <<>>, err |-> NilErr]
          /\ pc = "iter" =>
                /\ out = <<>>
                /\ ret.op = "Next" =>
                      /\ dones = 1
                      /\ ret = Ret("Next", 0, ErrDone, NoPanic) \/ ret.panic = PanicErrDone
          /\ pc = "returned" => parseRet = [isNil |-> FALSE, vals |-> <<>>, err |-> NilErr]
    /\ (spec # <<>> /\ HasEmptyItem(spec) /\ pc # "start") =>
          /\ IsInvalid(it)
          /\ pc # "parse"
          /\ pc = "returned" => parseRet.err # NilErr
C8_Witness ==
    /\ spec = <<>>
    /\ pc = "returned"
    /\ parseRet = [isNil |-> FALSE, vals |-> <<>>, err |-> NilErr]

\* C9 as stated: every malformed specification (an item with whitespace, a
\* decimal point or other non-integer text, more than one "...", or an empty
\* item) is reported as a syntax error.
IsMalformedItem(item) ==
    \/ Len(PartsOf(item)) > 2
    \/ \E k \in 1..Len(PartsOf(item)) : ~IsIntegerLiteral(PartsOf(item)[k])
IsMalformed(s) == \E k \in 1..Len(ItemsOf(s)) : IsMalformedItem(ItemsOf(s)[k])
C9_Original ==
    (pc # "start" /\ IsMalformed(spec)) => it.err.Err = "ErrSyntax"
\* C9, amended: a specification whose leftmost failing piece is malformed, and
\* has no leading digits that overflow before its first invalid character, is
\* reported as the syntax error of that piece.
C9_SyntaxError ==
    (pc # "start" /\ ~ValidSpec(spec) /\ ClassesOf(spec)[FirstBad(spec)] = "syntax") =>
        /\ it.err.Err = "ErrSyntax"
        /\ it.err.Num = PiecesOf(spec)[FirstBad(spec)]
        /\ pc = "returned" => parseRet.err.Err = "ErrSyntax"
C9_Witness ==
    /\ spec = Join(<<Itoa(2), Itoa(-1) \o Ellipsis \o Itoa(0) \o Ellipsis \o Itoa(2)>>, Comma)
    /\ pc = "returned"
    /\ parseRet.err = NumError("NewIterator",
                               Itoa(-1) \o Ellipsis \o Itoa(0) \o Ellipsis \o Itoa(2),
                               "ErrSyntax")

\* C10: an integer literal outside the int range, as a literal item or as
\* either endpoint of a range, yields a range error, which is not a syntax
\* error, provided no earlier piece failed.
C10_RangeError ==
    (/\ pc # "start"
     /\ ~ValidSpec(spec)
     /\ ClassesOf(spec)[FirstBad(spec)] = "range"
     /\ IsIntegerLiteral(PiecesOf(spec)[FirstBad(spec)])) =>
        /\ it.err = NumError("Atoi", PiecesOf(spec)[FirstBad(spec)], "ErrRange")
        /\ it.err.Err # "ErrSyntax"
        /\ pc = "returned" => parseRet.err.Err = "ErrRange"
C10_Witness ==
    /\ spec = Itoa(2) \o Ellipsis \o Itoa(MaxInt + 1)
    /\ pc = "returned"
    /\ parseRet.err = NumError("Atoi", Itoa(MaxInt + 1), "ErrRange")

\* C11: Err is a pure read.  In every state of the Iterator (ready, invalid,
\* done) a call of Err does not panic, returns the error slot, changes neither
\* the pending sequence nor the error slot, and returns what the previous Err
\* call returned when no Next call came in between.
C11_ErrPure ==
    [][CallErr =>
          /\ ret'.panic = NoPanic
          /\ ret'.err = it.err
          /\ it' = it
          /\ out' = out
          /\ dones' = dones
          /\ ret.op = "Err" => ret'.err = ret.err]_vars
C11_Witness ==
    /\ pc = "iter"
    /\ IsInvalid(it)
    /\ ret = Ret("Err", 0, it.err, NoPanic)
    /\ spec = Join(<<Itoa(2), <<" ", "1">>>>, Comma)

\* C12: Parse("1,2,21,50...54,61..57") returns
\* [1 2 21 50 51 52 53 54 61 60 59 58 57] and a nil error, as the comment of
\* Parse says.
C12_ParseDocExample ==
    (spec = ParseDocSpec /\ pc = "returned") =>
        parseRet = [isNil |-> FALSE,
                    vals |-> <<1, 2, 21, 50, 51, 52, 53, 54, 61, 60, 59, 58, 57>>,
                    err |-> NilErr]

\* The grammar of the specification text: spec := "" | item ("," item)*,
\* item := integer | integer "..." integer, with the integers given by Int.
IsGrammarInteger(p) ==
    LET b == IF Len(p) > 0 /\ p[1] = "-" THEN Tail(p) ELSE p
    IN Len(b) > 0 /\ AllDigits(b)
InGrammar(s) ==
    \/ s = <<>>
    \/ \A k \in 1..Len(Split(s, Comma)) :
          LET parts == PartsOf(Split(s, Comma)[k])
          IN Len(parts) <= 2 /\ \A j \in 1..Len(parts) : IsGrammarInteger(parts[j])
InSignedGrammar(s) ==
    \/ s = <<>>
    \/ \A k \in 1..Len(Split(s, Comma)) :
          LET parts == PartsOf(Split(s, Comma)[k])
          IN Len(parts) <= 2 /\ \A j \in 1..Len(parts) : IsIntegerLiteral(parts[j])
Accepted(i) == i.err = NilErr \/ i.err = ErrDone

\* C13 as stated: NewIterator accepts only specifications of the grammar with
\* integer := "-"? digit+; a piece with any other non-digit content, a leading
\* '+' included, is rejected with a syntax error.
C13_Original ==
    (pc # "start" /\ ~InGrammar(spec)) => it.err.Err = "ErrSyntax"
\* C13, amended: NewIterator accepts only specifications of the grammar with
\* integer := ("-" | "+")? digit+.  A leading '+' is accepted; a piece with any
\* other non-digit content makes the specification invalid, with a syntax
\* error when no out-of-range integer is read before it.
C13_SignedGrammar ==
    pc # "start" =>
        /\ Accepted(it) => InSignedGrammar(spec)
        /\ ~InSignedGrammar(spec) =>
              /\ IsInvalid(it)
              /\ ClassesOf(spec)[FirstBad(spec)] = "syntax" => it.err.Err = "ErrSyntax"
        /\ (ValidSpec(spec) /\ ~InGrammar(spec)) => Accepted(it)
C13_Witness ==
    /\ spec = Join(<<<<"+", "1">>, Itoa(-1) \o Ellipsis \o Itoa(2)>>, Comma)
    /\ pc = "iter"
    /\ it.err = ErrDone
    /\ out = <<1, -1, 0, 1, 2>>

\* C14: for a valid specification that expands to N integers, each of the
\* first N Next calls returns a value and a nil error and leaves the error
\* slot nil, also the N-th, after which nothing is pending; the (N+1)-th
\* returns (0, ErrDone) and sets the error slot.  Err returns ErrDone exactly
\* when an earlier Next call returned ErrDone.
C14_DoneAfterLast ==
    [][/\ (CallNext /\ ValidSpec(spec) /\ Len(out) < Len(Expected(spec))) =>
             /\ ret' = Ret("Next", Expected(spec)[Len(out) + 1], NilErr, NoPanic)
             /\ Len(out') = Len(out) + 1
             /\ it'.err = NilErr
             /\ dones' = 0
       /\ (CallNext /\ ValidSpec(spec) /\ Len(out) = Len(Expected(spec)) /\ dones = 0) =>
             /\ it.err = NilErr
             /\ it.seqs = <<>>
             /\ ret' = Ret("Next", 0, ErrDone, NoPanic)
             /\ it'.err = ErrDone
             /\ dones' = 1
       /\ CallErr => (ret'.err = ErrDone <=> dones >= 1)]_vars
C14_Witness ==
    /\ spec = Join(<<Itoa(2), Itoa(-1) \o Ellipsis \o Itoa(2)>>, Comma)
    /\ pc = "iter"
    /\ out = <<2, -1, 0, 1, 2>>
    /\ it = [seqs |-> <<>>, err |-> NilErr]
    /\ ret = Ret("Err", 0, NilErr, NoPanic)

\* |a - b|
Dist(a, b) == IF a <= b THEN b - a ELSE a - b

\* C15: over any sequence of Next calls no descriptor's last or step changes
\* and only the front descriptor is modified or removed: a call either leaves
\* the pending sequence alone (a panic, ErrDone), or emits the front
\* descriptor's next and, when it equals last, removes the descriptor, else
\* moves next by step, one closer to last.
C15_FrontOnly ==
    [][pc # "start" =>
          LET s == it.seqs
              t == it'.seqs
          IN /\ \/ t = s
                \/ /\ Len(s) > 0
                   /\ s[1].next = s[1].last
                   /\ t = Tail(s)
                   /\ ret' = Ret("Next", s[1].last, NilErr, NoPanic)
                \/ /\ Len(s) > 0
                   /\ s[1].next # s[1].last
                   /\ Len(t) = Len(s)
                   /\ Tail(t) = Tail(s)
                   /\ t[1].last = s[1].last
                   /\ t[1].step = s[1].step
                   /\ t[1].next = s[1].next + s[1].step
                   /\ Dist(t[1].next, t[1].last) = Dist(s[1].next, s[1].last) - 1
                   /\ ret' = Ret("Next", s[1].next, NilErr, NoPanic)
             /\ ((CallNext \/ ParseLoop) /\ it.err = NilErr /\ Len(s) > 0) => t # s]_vars
C15_Witness ==
    /\ spec = Join(<<Itoa(2) \o Ellipsis \o Itoa(-1), Itoa(-1) \o Ellipsis \o Itoa(2)>>, Comma)
    /\ pc = "iter"
    /\ ret = Ret("Next", 1, NilErr, NoPanic)
    /\ it.seqs = <<[next |-> 0, last |-> -1, step |-> -1],
                   [next |-> -1, last |-> 2, step |-> 1]>>

\* The callers keep going: a caller that iterates keeps calling Next, and the
\* loop of Parse runs on until it returns.
FairSpec == Init /\ [][Next]_vars /\ WF_vars(CallNext) /\ WF_vars(ParseLoop)

\* C16: for a valid specification, calling Next again and again returns
\* ErrDone after finitely many calls, and the loop of Parse ends with Parse
\* returning.
C16_Terminates ==
    /\ (pc = "parse") ~> (pc = "returned")
    /\ (pc = "iter" /\ ValidSpec(spec)) ~> (dones = 1)
C16_Witness ==
    /\ spec = ParseTestSpec
    /\ pc = "returned"
    /\ ret = Ret("Next", 0, ErrDone, NoPanic)
    /\ parseRet = [isNil |-> FALSE, vals |-> <<1, 2, 3, 7, 5, 4, 3, 9>>, err |-> NilErr]

\* C17: Next takes no lock.  When the Next calls of the two callers do not
\* overlap, the values returned are, in order, a prefix of the sequential
\* expansion, ErrDone is returned once at most and only after the whole
\* expansion, and no run-time panic occurs;
\* when they overlap, a state is reached in which the same integer has been
\* returned to both callers (C17_Witness).
IsRuntimeFault(f) == f = PanicIndex \/ f = PanicSlice
C17_SerializedOnly ==
    (pc = "conc" /\ ~conc.overlapped) =>
        /\ IF ValidSpec(spec) THEN IsPrefix(out, Expected(spec)) ELSE out = <<>>
        /\ dones <= 1
        /\ dones = 1 => out = Expected(spec)
        /\ ~IsRuntimeFault(conc.fault)
        /\ it.seqs = SeqsView(conc.arr, conc.off)
C17_Witness ==
    /\ pc = "conc"
    /\ spec = Itoa(2)
    /\ conc.overlapped
    /\ out = <<2, 2>>
    /\ \A t \in Threads : conc.th[t].pc = "idle" /\ conc.th[t].val = 2

\* C18: Parse never triggers a misuse panic, whatever the input string: it
\* enters its loop only when the new Iterator's Err() is nil, every Next call
\* of the loop finds the error slot nil and returns without panicking, the
\* call that returns ErrDone ends Parse, and once Parse has returned no
\* further call is made.
C18_ParseNoPanic ==
    [][/\ ParseBegin => (pc' = "parse" <=> NewIterator(spec).err = NilErr)
       /\ ParseLoop => /\ it.err = NilErr
                       /\ ret'.panic = NoPanic
                       /\ ret'.err = ErrDone <=> pc' = "returned"
       /\ pc \in {"start", "parse"} => pc' # "panicked"
       /\ pc # "returned"]_vars
C18_Witness ==
    /\ spec = PackageDocSpec
    /\ pc = "returned"
    /\ it = [seqs |-> <<>>, err |-> ErrDone]
    /\ ret = Ret("Next", 0, ErrDone, NoPanic)
    /\ parseRet = [isNil |-> FALSE, vals |-> <<4, 12, 11, 10, 9, 8, -3>>, err |-> NilErr]

\* C19: for a specification whose integers all lie in the int range, every
\* value stored in a descriptor's next lies between the two endpoints of its
\* item, the sum next + step computed by Next lies in the int range (no
\* overflow, no wrap), and the call that finds next = last removes the
\* descriptor without stepping; this includes ranges that end at the largest
\* or the smallest int.
EndpointA(item) == TextValue(PartsOf(item)[1])
EndpointB(item) == TextValue(PartsOf(item)[Len(PartsOf(item))])
Between(x, a, b) == (a <= x /\ x <= b) \/ (b <= x /\ x <= a)
\* The item of s that the k-th pending descriptor of i stands for.
ItemOfSeq(s, i, k) == ItemsOf(s)[Len(ItemsOf(s)) - Len(i.seqs) + k]
NextWithinEnds(s, i) ==
    /\ Len(i.seqs) <= Len(ItemsOf(s))
    /\ \A k \in 1..Len(i.seqs) :
          /\ Between(i.seqs[k].next, EndpointA(ItemOfSeq(s, i, k)), EndpointB(ItemOfSeq(s, i, k)))
          /\ i.seqs[k].last = EndpointB(ItemOfSeq(s, i, k))
C19_NoOverflow ==
    [][ValidSpec(spec) =>
          /\ NextWithinEnds(spec, it')
          /\ ((CallNext \/ ParseLoop) /\ it.err = NilErr /\ Len(it.seqs) > 0) =>
                IF it.seqs[1].next = it.seqs[1].last
                THEN it'.seqs = Tail(it.seqs)
                ELSE /\ it.seqs[1].next + it.seqs[1].step \in MinInt..MaxInt
                     /\ it'.seqs = [it.seqs EXCEPT ![1].next = it.seqs[1].next + it.seqs[1].step]]_vars
C19_Witness ==
    /\ spec = Join(<<Itoa(MaxInt - 1) \o Ellipsis \o Itoa(MaxInt),
                     Itoa(MinInt + 1) \o Ellipsis \o Itoa(MinInt)>>, Comma)
    /\ pc = "iter"
    /\ out = <<MaxInt - 1, MaxInt, MinInt + 1, MinInt>>
    /\ it = [seqs |-> <<>>, err |-> NilErr]
    /\ ret = Ret("Next", MinInt, NilErr, NoPanic)

====
